---------------------------- MODULE Spec2Model ----------------------------
(***************************************************************************)
(* A model of the sensor-readings service of app.py: one sqlite table      *)
(* `readings`, a POST handler that validates and inserts a reading, a GET  *)
(* handler that lists the readings of a device, and one GET handler per    *)
(* statistic (max, min, median, mean, mode, quartiles), and a GET handler   *)
(* that summarises every (device, type) group.                             *)
(* Every handler opens its sqlite connection through get_db() and the      *)
(* teardown of the request context closes it.                              *)
(*                                                                         *)
(* Python / JSON / SQL values are cells [tag, n, s]:                       *)
(*   "none"    Python None, SQL NULL, JSON null                            *)
(*   "missing" a key that is absent from a dict                            *)
(*   "int"     an integer n                                                *)
(*   "float"   a float, n is its value in hundredths (8750 is 87.5)        *)
(*   "str"     the text s                                                  *)
(*   "error"   an exception raised inside a user-defined SQL aggregate     *)
(***************************************************************************)
EXTENDS Integers, Sequences, FiniteSets, TLC

VARIABLES
    readings,   \* the rows of table `readings`, in rowid (insertion) order
    clock,      \* int(time.time()) as the server observes it
    req,        \* the request the last step handled
    resp,       \* the response the last step returned
    g_database, \* g._database of the request context: None or the connection
    connections \* the number of sqlite connections that are open

vars == <<readings, clock, req, resp, g_database, connections>>

---------------------------------------------------------------------------
(* Bounds of the model *)

MaxReadings == 2

MaxClock == 1

(* Program constants: the limits of value in write_schema *)

MinValue == 0

MaxValue == 100

---------------------------------------------------------------------------
(* Values *)

None == [tag |-> "none", n |-> 0, s |-> ""]

Missing == [tag |-> "missing", n |-> 0, s |-> ""]

PyInt(n) == [tag |-> "int", n |-> n, s |-> ""]

PyFloat(h) == [tag |-> "float", n |-> h, s |-> ""]

PyStr(s) == [tag |-> "str", n |-> 0, s |-> s]

Raised == [tag |-> "error", n |-> 0, s |-> ""]

IsNumber(c) == c.tag \in {"int", "float"}

\* a number in hundredths, so that 50 and 50.0 compare equal as they do in JSON
Hundredths(c) == IF c.tag = "int" THEN 100 * c.n ELSE c.n

\* str(t) for the epoch seconds the model uses
DigitStr(t) ==
    CASE t = 0 -> "0" [] t = 1 -> "1" [] t = 2 -> "2" [] t = 3 -> "3"
      [] t = 4 -> "4" [] t = 5 -> "5" [] t = 6 -> "6" [] t = 7 -> "7"
      [] t = 8 -> "8" [] OTHER -> "9"

\* text that sqlite's NUMERIC affinity turns into an integer
IsNumericText(s) == \E t \in 0..9 : DigitStr(t) = s

AtoI(s) == CHOOSE t \in 0..9 : DigitStr(t) = s

---------------------------------------------------------------------------
(* Inputs *)

Devices == {"d1", "d2"}

SensorTypes == {"temperature", "humidity"}

Epochs == 0..MaxClock

\* the JSON documents a client posts: each key is absent or carries a value
PostTypes == {Missing, PyInt(7)} \cup {PyStr(t) : t \in SensorTypes}

PostValues ==
    {Missing, PyInt(MinValue - 1), PyInt(MinValue), PyInt(MaxValue),
     PyInt(MaxValue + 1), PyStr("high"), PyFloat(5050)}

PostDates == {Missing, PyInt(0)}

PostData == [type : PostTypes, value : PostValues, date_created : PostDates]

NoData == [type |-> Missing, value |-> Missing, date_created |-> Missing]

\* request.args.get(k): None when the query string has no k, else its text
TypeArgs == {None, PyStr("")} \cup {PyStr(t) : t \in SensorTypes}

TimeArgs == {None} \cup {PyStr(DigitStr(t)) : t \in Epochs}

ListArgs == [type : TypeArgs, start : TimeArgs \cup {PyStr("")}, end : TimeArgs]

MetricArgs == [type : TypeArgs \ {PyStr("")}, start : TimeArgs, end : TimeArgs]

NoArgs == [type |-> None, start |-> None, end |-> None]

---------------------------------------------------------------------------
(* Responses *)

NoBody ==
    [kind |-> "none", text |-> "", rows |-> <<>>, value |-> None,
     quartile_1 |-> None, quartile_3 |-> None]

Text(t, status) == [status |-> status, body |-> [NoBody EXCEPT !.kind = "text", !.text = t]]

Rows(rs, status) == [status |-> status, body |-> [NoBody EXCEPT !.kind = "rows", !.rows = rs]]

Value(v, status) == [status |-> status, body |-> [NoBody EXCEPT !.kind = "value", !.value = v]]

Quartiles(a, b, status) ==
    [status |-> status,
     body |-> [NoBody EXCEPT !.kind = "quartiles", !.quartile_1 = a, !.quartile_3 = b]]

NoResponse == [status |-> 0, body |-> NoBody]

Idle == [op |-> "idle", device_uuid |-> "", data |-> NoData, args |-> NoArgs]

Request(op, d, data, args) == [op |-> op, device_uuid |-> d, data |-> data, args |-> args]

---------------------------------------------------------------------------
(* The table and the WHERE clauses the handlers build *)

Row(d, t, v, c) == [device_uuid |-> d, type |-> t, value |-> v, date_created |-> c]

Cond(col, op, param) == [col |-> col, op |-> op, param |-> param]

ColumnOf(row, col) ==
    CASE col = "device_uuid" -> PyStr(row.device_uuid)
      [] col = "type" -> row.type
      [] col = "value" -> row.value
      [] OTHER -> row.date_created

\* sqlite's comparison of a column with a bound parameter.  A comparison with
\* NULL is never true.  The text columns compare with text by equality.  A text
\* parameter compared with the INTEGER column date_created gets NUMERIC
\* affinity: well-formed integer text becomes that integer, any other text
\* stays TEXT, and every integer sorts before every text.
SqlCompare(op, a, b) ==
    IF a.tag = "none" \/ b.tag = "none" THEN FALSE
    ELSE IF op = "=" THEN a = b
    ELSE IF a.tag = "int" /\ b.tag = "str" /\ IsNumericText(b.s)
         THEN IF op = ">=" THEN a.n >= AtoI(b.s) ELSE a.n <= AtoI(b.s)
    ELSE IF a.tag = "int" /\ b.tag = "int"
         THEN IF op = ">=" THEN a.n >= b.n ELSE a.n <= b.n
    ELSE op = "<="

Where(row, conds) ==
    \A i \in 1..Len(conds) :
        SqlCompare(conds[i].op, ColumnOf(row, conds[i].col), conds[i].param)

\* cur.execute(select ... where conds); cur.fetchall() of a scan in rowid order
Execute(table, conds) ==
    LET Test(r) == Where(r, conds) IN SelectSeq(table, Test)

ValuesOf(rows) == [i \in 1..Len(rows) |-> rows[i].value]

\* x or None
OrNone(x) == IF x.tag = "str" /\ x.s = "" THEN None ELSE x

\* dict.get(key, default)
Get(x, default) == IF x.tag = "missing" THEN default ELSE x

\* query_builder that forgets the end condition
query_builder_NoEnd(sensor_type, start, end) ==
    (IF sensor_type # None THEN <<Cond("type", "=", sensor_type)>> ELSE <<>>)
    \o (IF start # None THEN <<Cond("date_created", ">=", start)>> ELSE <<>>)

\* query_builder of the listing: the conditions appended to
\* "select * from readings where device_uuid=?"
query_builder(sensor_type, start, end) ==
    (IF sensor_type # None THEN <<Cond("type", "=", sensor_type)>> ELSE <<>>)
    \o (IF start # None THEN <<Cond("date_created", ">=", start)>> ELSE <<>>)
    \o (IF end # None THEN <<Cond("date_created", "<=", end)>> ELSE <<>>)

\* metric_query_builder: sensor_type binds the template's "type=?", then the
\* conditions appended to the template
metric_query_builder(sensor_type, start, end) ==
    <<Cond("type", "=", sensor_type)>>
    \o (IF start # None THEN <<Cond("date_created", ">=", start)>> ELSE <<>>)
    \o (IF end # None THEN <<Cond("date_created", "<=", end)>> ELSE <<>>)

\* params_tuple = (device_uuid,) + params on a template "... where device_uuid=? ..."
DeviceIs(device_uuid) == <<Cond("device_uuid", "=", PyStr(device_uuid))>>

---------------------------------------------------------------------------
(* The connection of a request *)

Connection == PyStr("sqlite3.Connection")

\* get_db(): connects when the context holds no connection and returns the new
\* connection; the return sits inside the if, so a call on a context that
\* already holds one returns None
get_db(database) ==
    IF database = None
    THEN [db |-> Connection, g_database |-> Connection, opened |-> 1]
    ELSE [db |-> None, g_database |-> database, opened |-> 0]

\* a teardown that leaves the connection open
db_close_Never(database, open) == open

\* close_connection(exception): db.close() when the context holds a connection
db_close(database, open) == IF database # None THEN open - 1 ELSE open

\* "db = get_db()" at the top of every handler
Connects ==
    /\ g_database' = get_db(g_database).g_database
    /\ connections' = connections + get_db(g_database).opened

---------------------------------------------------------------------------
(* POST /devices/<device_uuid>/readings/ *)

\* validate with the 'max' rule of value left out of the schema
validate_NoMax(post_data) ==
    /\ post_data.date_created.tag = "missing"
    /\ post_data.type.tag \in {"missing", "str"}
    /\ \/ post_data.value.tag = "missing"
       \/ /\ post_data.value.tag = "int"
          /\ post_data.value.n >= MinValue

\* Validator(write_schema).validate(post_data): keys are optional unless marked
\* required, a key the schema does not name is an error, None is not allowed,
\* 'integer' excludes floats and booleans
validate(post_data) ==
    /\ post_data.date_created.tag = "missing"
    /\ post_data.type.tag \in {"missing", "str"}
    /\ \/ post_data.value.tag = "missing"
       \/ /\ post_data.value.tag = "int"
          /\ post_data.value.n >= MinValue
          /\ post_data.value.n <= MaxValue

\* the row the handler inserts
InsertedRow(device_uuid, post_data, now) ==
    Row(device_uuid, Get(post_data.type, None), Get(post_data.value, None),
        Get(post_data.date_created, PyInt(now)))

\* the POST branch without db.commit(): the insert is rolled back when the
\* connection closes
request_device_readings_post_NoCommit(device_uuid, post_data, table, now) ==
    IF ~validate(post_data)
    THEN [resp |-> Text("invalid input", 400), table |-> table]
    ELSE [resp |-> Text("success", 201), table |-> table]

\* the POST branch with the insert and commit ahead of the validation
request_device_readings_post_InsertFirst(device_uuid, post_data, table, now) ==
    [resp |-> IF validate(post_data) THEN Text("success", 201)
              ELSE Text("invalid input", 400),
     table |-> Append(table, InsertedRow(device_uuid, post_data, now))]

\* the POST branch: the response and the table after it
request_device_readings_post(device_uuid, post_data, table, now) ==
    IF ~validate(post_data)
    THEN [resp |-> Text("invalid input", 400), table |-> table]
    ELSE [resp |-> Text("success", 201),
          table |-> Append(table, InsertedRow(device_uuid, post_data, now))]

---------------------------------------------------------------------------
(* GET /devices/<device_uuid>/readings/ *)

request_device_readings_get(device_uuid, args, table) ==
    LET sensor_type == OrNone(args.type)
        epoch_start == OrNone(args.start)
        epoch_end == OrNone(args.end)
        conds == query_builder(sensor_type, epoch_start, epoch_end)
    IN  Rows(Execute(table, DeviceIs(device_uuid) \o conds), 200)

---------------------------------------------------------------------------
(* SQL aggregates over the value column of the selected rows *)

NonNull(cells) == LET Test(c) == c.tag # "none" IN SelectSeq(cells, Test)

RECURSIVE SumOf(_)
SumOf(cells) == IF cells = <<>> THEN 0 ELSE Head(cells).n + SumOf(Tail(cells))

RECURSIVE Insert(_, _)
Insert(x, sorted) ==
    IF sorted = <<>> THEN <<x>>
    ELSE IF x <= Head(sorted) THEN <<x>> \o sorted
    ELSE <<Head(sorted)>> \o Insert(x, Tail(sorted))

RECURSIVE SortAsc(_)
SortAsc(ints) == IF ints = <<>> THEN <<>> ELSE Insert(Head(ints), SortAsc(Tail(ints)))

IntsOf(cells) == [i \in 1..Len(cells) |-> cells[i].n]

\* max(value): NULL values are skipped, NULL when nothing is left
sql_max(cells) ==
    LET a == SortAsc(IntsOf(NonNull(cells)))
    IN  IF a = <<>> THEN None ELSE PyInt(a[Len(a)])

\* min(value)
sql_min(cells) ==
    LET a == SortAsc(IntsOf(NonNull(cells)))
    IN  IF a = <<>> THEN None ELSE PyInt(a[1])

\* round(total(value)/count(value),2)-like: 0.0 instead of NULL on no value
sql_round_avg_ZeroOnEmpty(cells) ==
    LET a == NonNull(cells)
        n == Len(a)
    IN  IF n = 0 THEN PyFloat(0)
        ELSE PyFloat((200 * SumOf(a) + n) \div (2 * n))

\* round(avg(value),2): avg skips NULL values and is NULL when nothing is left,
\* round(NULL,2) is NULL, and round goes half away from zero
sql_round_avg(cells) ==
    LET a == NonNull(cells)
        n == Len(a)
    IN  IF n = 0 THEN None
        ELSE PyFloat((200 * SumOf(a) + n) \div (2 * n))

\* Percentile.finalize: np.nanpercentile(self.arr, self.percentile,
\* interpolation='midpoint').  The array holds what step() appended, NULL
\* values included as None, on which numpy raises.
Percentile_finalize(arr, per) ==
    IF \E i \in 1..Len(arr) : arr[i].tag # "int" THEN Raised
    ELSE LET a == SortAsc(IntsOf(arr))
             pos == per * (Len(a) - 1)
             lo == pos \div 100
             hi == IF pos % 100 = 0 THEN lo ELSE lo + 1
         IN  PyFloat(50 * (a[lo + 1] + a[hi + 1]))

\* percentile(value, per): step() runs once per selected row; with no row the
\* aggregate is never instantiated and the result is NULL
sql_percentile(cells, per) ==
    IF cells = <<>> THEN None ELSE Percentile_finalize(cells, per)

Count(cells, c) == Cardinality({i \in 1..Len(cells) : cells[i] = c})

\* "group by value order by count(*) desc": the values that can come first
\* (SQL leaves the order of groups with equal counts open)
FirstGroups(cells) ==
    {cells[i] : i \in {j \in 1..Len(cells) :
                         \A k \in 1..Len(cells) :
                             Count(cells, cells[k]) <= Count(cells, cells[j])}}

\* the rows a metric query selects
MetricRows(device_uuid, args, table) ==
    Execute(table,
            DeviceIs(device_uuid) \o metric_query_builder(args.type, args.start, args.end))

---------------------------------------------------------------------------
(* GET /devices/<device_uuid>/readings/<metric>/ *)

request_device_readings_max(device_uuid, args, table) ==
    IF args.type = None THEN Text("sensor type is required", 400)
    ELSE Value(sql_max(ValuesOf(MetricRows(device_uuid, args, table))), 200)

request_device_readings_min(device_uuid, args, table) ==
    IF args.type = None THEN Text("sensor type is required", 400)
    ELSE Value(sql_min(ValuesOf(MetricRows(device_uuid, args, table))), 200)

\* the median handler without its check for sensor type
request_device_readings_median_NoCheck(device_uuid, args, table) ==
    LET v == sql_percentile(ValuesOf(MetricRows(device_uuid, args, table)), 50)
    IN  IF v = Raised THEN Text("Error getting max value", 500)
        ELSE Value(v, 200)

request_device_readings_median(device_uuid, args, table) ==
    IF args.type = None THEN Text("sensor type is required", 400)
    ELSE LET v == sql_percentile(ValuesOf(MetricRows(device_uuid, args, table)), 50)
         IN  IF v = Raised THEN Text("Error getting max value", 500)
             ELSE Value(v, 200)

request_device_readings_mean(device_uuid, args, table) ==
    IF args.type = None THEN Text("sensor type is required", 400)
    ELSE Value(sql_round_avg(ValuesOf(MetricRows(device_uuid, args, table))), 200)

\* the responses the mode handler can give (one per group that can come first)
request_device_readings_mode(device_uuid, args, table) ==
    IF args.type = None THEN {Text("sensor type is required", 400)}
    ELSE LET cells == ValuesOf(MetricRows(device_uuid, args, table))
         IN  IF cells = <<>> THEN {Value(PyStr("null"), 200)}
             ELSE {Value(v, 200) : v \in FirstGroups(cells)}

request_device_readings_quartiles(device_uuid, args, table) ==
    IF args.type = None THEN Text("sensor type is required", 400)
    ELSE LET cells == ValuesOf(MetricRows(device_uuid, args, table))
             q1 == sql_percentile(cells, 25)
             q3 == sql_percentile(cells, 75)
         IN  IF q1 = Raised \/ q3 = Raised THEN Text("Error getting max value", 500)
             ELSE Quartiles(q1, q3, 200)

---------------------------------------------------------------------------
(* GET /devices/summary/ *)

Summary(rs, status) ==
    [status |-> status, body |-> [NoBody EXCEPT !.kind = "summary", !.rows = rs]]

\* "group by device_uuid, type": one group per pair that some row carries
\* (rows whose type is NULL group together)
SummaryGroups(table) ==
    {<<table[i].device_uuid, table[i].type>> : i \in 1..Len(table)}

\* the value column of the rows of one group
GroupCells(table, group) ==
    LET Test(r) == r.device_uuid = group[1] /\ r.type = group[2]
    IN  ValuesOf(SelectSeq(table, Test))

\* the select list evaluated over one group, under the keys the handler zips on
SummaryRow(table, group) ==
    LET cells == GroupCells(table, group)
    IN  [device_uuid |-> group[1],
         number_of_readings |-> Len(cells),
         max_reading_value |-> sql_max(cells),
         mean_reading_value |-> sql_round_avg(cells),
         quartile_1_value |-> sql_percentile(cells, 25),
         quartile_3_value |-> sql_percentile(cells, 75),
         median_value |-> sql_percentile(cells, 50),
         device_type |-> group[2]]

\* "order by count(device_uuid) desc": the orders the groups can come in
\* (SQL leaves the order of groups with equal counts open)
SummaryOrders(table) ==
    LET groups == SummaryGroups(table)
        n == Cardinality(groups)
    IN  {order \in [1..n -> groups] :
            /\ \A i, j \in 1..n : i # j => order[i] # order[j]
            /\ \A i, j \in 1..n :
                  i < j => Len(GroupCells(table, order[i])) >= Len(GroupCells(table, order[j]))}

\* the responses the summary handler can give: an exception inside percentile
\* fails the whole query
request_device_summary(table) ==
    IF \E group \in SummaryGroups(table) :
          Raised \in {SummaryRow(table, group).quartile_1_value,
                      SummaryRow(table, group).quartile_3_value,
                      SummaryRow(table, group).median_value}
    THEN {Text("Error getting max value", 500)}
    ELSE {Summary([i \in 1..Len(order) |-> SummaryRow(table, order[i])], 200) :
            order \in SummaryOrders(table)}

---------------------------------------------------------------------------
(* The service *)

Init ==
    /\ readings = <<>>
    /\ clock = 0
    /\ req = Idle
    /\ resp = NoResponse
    /\ g_database = None
    /\ connections = 0

\* time passes between requests
Tick ==
    /\ req = Idle
    /\ clock < MaxClock
    /\ clock' = clock + 1
    /\ UNCHANGED <<readings, req, resp, g_database, connections>>

\* the response is sent and the request context is torn down: the teardown
\* handler runs whatever the response was, the context and its g are dropped,
\* and the server waits for the next request
close_connection ==
    /\ req # Idle
    /\ connections' = db_close(g_database, connections)
    /\ g_database' = None
    /\ req' = Idle
    /\ resp' = NoResponse
    /\ UNCHANGED <<readings, clock>>

PostReading ==
    \E d \in Devices, post_data \in PostData :
        LET out == request_device_readings_post(d, post_data, readings, clock)
        IN  /\ req = Idle
            /\ Len(out.table) <= MaxReadings
            /\ req' = Request("POST", d, post_data, NoArgs)
            /\ resp' = out.resp
            /\ readings' = out.table
            /\ Connects
            /\ UNCHANGED clock

GetReadings ==
    \E d \in Devices, args \in ListArgs :
        /\ req = Idle
        /\ Connects
        /\ req' = Request("GET", d, NoData, args)
        /\ resp' = request_device_readings_get(d, args, readings)
        /\ UNCHANGED <<readings, clock>>

GetMax ==
    \E d \in Devices, args \in MetricArgs :
        /\ req = Idle
        /\ Connects
        /\ req' = Request("max", d, NoData, args)
        /\ resp' = request_device_readings_max(d, args, readings)
        /\ UNCHANGED <<readings, clock>>

GetMin ==
    \E d \in Devices, args \in MetricArgs :
        /\ req = Idle
        /\ Connects
        /\ req' = Request("min", d, NoData, args)
        /\ resp' = request_device_readings_min(d, args, readings)
        /\ UNCHANGED <<readings, clock>>

GetMedian ==
    \E d \in Devices, args \in MetricArgs :
        /\ req = Idle
        /\ Connects
        /\ req' = Request("median", d, NoData, args)
        /\ resp' = request_device_readings_median(d, args, readings)
        /\ UNCHANGED <<readings, clock>>

GetMean ==
    \E d \in Devices, args \in MetricArgs :
        /\ req = Idle
        /\ Connects
        /\ req' = Request("mean", d, NoData, args)
        /\ resp' = request_device_readings_mean(d, args, readings)
        /\ UNCHANGED <<readings, clock>>

GetMode ==
    \E d \in Devices, args \in MetricArgs :
        /\ req = Idle
        /\ Connects
        /\ req' = Request("mode", d, NoData, args)
        /\ resp' \in request_device_readings_mode(d, args, readings)
        /\ UNCHANGED <<readings, clock>>

GetQuartiles ==
    \E d \in Devices, args \in MetricArgs :
        /\ req = Idle
        /\ Connects
        /\ req' = Request("quartiles", d, NoData, args)
        /\ resp' = request_device_readings_quartiles(d, args, readings)
        /\ UNCHANGED <<readings, clock>>

GetSummary ==
    /\ req = Idle
    /\ Connects
    /\ req' = Request("summary", "", NoData, NoArgs)
    /\ resp' \in request_device_summary(readings)
    /\ UNCHANGED <<readings, clock>>

Next ==
    \/ Tick
    \/ PostReading
    \/ GetReadings
    \/ GetMax
    \/ GetMin
    \/ GetMedian
    \/ GetMean
    \/ GetMode
    \/ GetQuartiles
    \/ GetSummary
    \/ close_connection

Spec == Init /\ [][Next]_vars

---------------------------------------------------------------------------
(* What the claims speak of *)

Metrics == {"max", "min", "median", "mean", "mode", "quartiles"}

\* a value a record request must not store: an integer out of range, or no integer
BadValue(v) ==
    /\ v.tag # "missing"
    /\ ~(v.tag = "int" /\ v.n >= MinValue /\ v.n <= MaxValue)

GoodValue(v) == v.tag = "int" /\ v.n >= MinValue /\ v.n <= MaxValue

\* a step that handles a POST
HandlesPost == req = Idle /\ req'.op = "POST"

CountIn(seq, x) == Cardinality({i \in 1..Len(seq) : seq[i] = x})

Range(seq) == {seq[i] : i \in 1..Len(seq)}

SameRows(a, b) == \A r \in Range(a) \cup Range(b) : CountIn(a, r) = CountIn(b, r)

\* a time bound that is an epoch
IsEpoch(arg) == arg.tag = "str" /\ IsNumericText(arg.s)

NotBefore(row, arg) == row.date_created.tag = "int" /\ row.date_created.n >= AtoI(arg.s)

NotAfter(row, arg) == row.date_created.tag = "int" /\ row.date_created.n <= AtoI(arg.s)

\* the filter of a listing, a type counting as given whenever the request carries one
InListFilter(row, q) ==
    /\ row.device_uuid = q.device_uuid
    /\ q.args.type # None => row.type = q.args.type
    /\ IsEpoch(q.args.start) => NotBefore(row, q.args.start)
    /\ IsEpoch(q.args.end) => NotAfter(row, q.args.end)

\* the filter of a listing, an empty type counting as not given
InListFilterNonEmpty(row, q) ==
    /\ row.device_uuid = q.device_uuid
    /\ (q.args.type # None /\ q.args.type # PyStr("")) => row.type = q.args.type
    /\ IsEpoch(q.args.start) => NotBefore(row, q.args.start)
    /\ IsEpoch(q.args.end) => NotAfter(row, q.args.end)

\* the filter of a statistic: device, sensor type and the time bounds supplied
InMetricFilter(row, q) ==
    /\ row.device_uuid = q.device_uuid
    /\ row.type = q.args.type
    /\ IsEpoch(q.args.start) => NotBefore(row, q.args.start)
    /\ IsEpoch(q.args.end) => NotAfter(row, q.args.end)

Matching(q) == LET Test(r) == InMetricFilter(r, q) IN SelectSeq(readings, Test)

\* the values the matching readings carry
MatchingValues(q) == IntsOf(NonNull(ValuesOf(Matching(q))))

\* the midpoint percentile of the claim, in hundredths: index = p/100*(n-1)
Midpoint(values, p) ==
    LET a == SortAsc(values)
        n == Len(a)
        floor == (p * (n - 1)) \div 100
        exact == (p * (n - 1)) % 100 = 0
    IN  IF exact THEN 100 * a[floor + 1]
        ELSE (100 * (a[floor + 1] + a[floor + 2])) \div 2

NullOutcome(r) ==
    /\ r.status = 200
    /\ \/ r.body.kind = "value" /\ ~IsNumber(r.body.value)
       \/ /\ r.body.kind = "quartiles"
          /\ ~IsNumber(r.body.quartile_1)
          /\ ~IsNumber(r.body.quartile_3)

---------------------------------------------------------------------------
(* Claims *)

\* C1: every reading in the store has an integer value with 0 <= value <= 100.
\* Stated as the claim; a POST without "value" stores a reading whose value is NULL.
C1_StoredValuesInRange ==
    \A i \in 1..Len(readings) : GoodValue(readings[i].value)

\* C2: a record request whose value is below 0, above 100 or not an integer is
\* answered 400 and leaves the store as it was.
C2_BadValueRejected ==
    [][(HandlesPost /\ BadValue(req'.data.value))
        => (resp'.status = 400 /\ readings' = readings)]_vars

C2_Witness ==
    /\ req.op = "POST"
    /\ req.data.type.tag = "str"
    /\ req.data.date_created.tag = "missing"
    /\ BadValue(req.data.value)
    /\ resp.status = 400
    /\ readings # <<>>

\* C3: a record request without sensor type or without value is answered 400
\* and adds no reading.  Stated as the claim; the schema marks no key required.
C3_MissingFieldRejected ==
    [][(HandlesPost /\ (req'.data.type.tag = "missing" \/ req'.data.value.tag = "missing"))
        => (resp'.status = 400 /\ readings' = readings)]_vars

\* C4: record(d, t, v) with a text t and an integer 0 <= v <= 100 is answered 201
\* and appends exactly the reading (d, t, v); a listing of d without time bounds
\* and with no type or type t contains every reading so recorded.
C4_RecordThenList ==
    [][/\ (/\ HandlesPost
           /\ req'.data.type.tag = "str"
           /\ GoodValue(req'.data.value)
           /\ req'.data.date_created.tag = "missing")
          => /\ resp'.status = 201
             /\ \E c \in Epochs :
                  readings' = Append(readings,
                      Row(req'.device_uuid, req'.data.type, req'.data.value, PyInt(c)))
       /\ (req'.op = "GET" /\ req'.args.start = None /\ req'.args.end = None)
          => /\ resp'.status = 200
             /\ \A i \in 1..Len(readings') :
                  (/\ readings'[i].device_uuid = req'.device_uuid
                   /\ readings'[i].type.tag = "str"
                   /\ GoodValue(readings'[i].value)
                   /\ req'.args.type \in {None, readings'[i].type})
                  => readings'[i] \in Range(resp'.body.rows)]_vars

C4_Witness ==
    /\ req.op = "GET"
    /\ req.args.start = None
    /\ req.args.end = None
    /\ Len(readings) = 2
    /\ readings[2].device_uuid = req.device_uuid
    /\ req.args.type = readings[2].type
    /\ req.args.type.tag = "str"
    /\ GoodValue(readings[2].value)
    /\ readings[2] \in Range(resp.body.rows)
    /\ readings[1] \notin Range(resp.body.rows)

\* C5: a record request with a valid sensor type and value is answered 201 and
\* stores the created_at the caller supplied, or the server time when the
\* caller supplied none.  Stated as the claim; the schema does not name
\* date_created, so a request that carries it fails validation.
C5_CreatedAtStored ==
    [][(HandlesPost /\ req'.data.type.tag = "str" /\ GoodValue(req'.data.value)
          /\ req'.data.date_created.tag \in {"missing", "int"})
        => /\ resp'.status = 201
           /\ readings' = Append(readings,
                Row(req'.device_uuid, req'.data.type, req'.data.value,
                    IF req'.data.date_created.tag = "missing" THEN PyInt(clock)
                    ELSE req'.data.date_created))]_vars

\* C6 as stated: a listing returns exactly the stored readings of the device
\* that have the given type (when a type is given) and lie within the given
\* inclusive time bounds.
C6_ListExactlyFiltered ==
    req.op = "GET" =>
        /\ resp.status = 200
        /\ LET Test(r) == InListFilter(r, req)
           IN  SameRows(resp.body.rows, SelectSeq(readings, Test))

\* C6 as amended: the same, where an empty type (like an empty start or end)
\* counts as not given.
C6_ListExactlyFilteredNonEmpty ==
    req.op = "GET" =>
        /\ resp.status = 200
        /\ LET Test(r) == InListFilterNonEmpty(r, req)
           IN  SameRows(resp.body.rows, SelectSeq(readings, Test))

C6_Witness ==
    /\ req.op = "GET"
    /\ req.args.type \in {PyStr(t) : t \in SensorTypes}
    /\ IsEpoch(req.args.start)
    /\ IsEpoch(req.args.end)
    /\ Len(readings) = 2
    /\ Len(resp.body.rows) = 1
    /\ readings[1].device_uuid = req.device_uuid
    /\ readings[2].device_uuid = req.device_uuid
    /\ readings[1].type = req.args.type
    /\ readings[2].type = req.args.type

\* C7: every statistic asked for without sensor type is answered 400 with no
\* statistic, and the store is left as it was.
C7_MetricNeedsType ==
    [][(req = Idle /\ req'.op \in Metrics /\ req'.args.type = None)
        => (resp'.status = 400 /\ resp'.body.kind = "text" /\ readings' = readings)]_vars

C7_Witness ==
    /\ req.op = "quartiles"
    /\ req.args.type = None
    /\ resp.status = 400
    /\ readings # <<>>

\* C8: every statistic over a filter that no stored reading matches is answered
\* 200 with an outcome that is not a number.
C8_EmptyIsNull ==
    (req.op \in Metrics /\ req.args.type # None /\ Matching(req) = <<>>)
        => NullOutcome(resp)

C8_Witness ==
    /\ req.op = "mean"
    /\ req.args.type # None
    /\ Matching(req) = <<>>
    /\ \E i \in 1..Len(readings) :
          readings[i].device_uuid = req.device_uuid /\ readings[i].type = req.args.type
    /\ resp.status = 200
    /\ resp.body.value = None

\* C9: over a non-empty set of matching values, median and the quartiles are
\* the midpoint percentiles 50, and 25 and 75.  Stated as the claim; a matching
\* reading stored without a value (C3) makes the percentile aggregate raise.
C9_PercentileIsMidpoint ==
    (req.op \in {"median", "quartiles"} /\ req.args.type # None
        /\ MatchingValues(req) # <<>>)
    => /\ resp.status = 200
       /\ req.op = "median" =>
            /\ IsNumber(resp.body.value)
            /\ Hundredths(resp.body.value) = Midpoint(MatchingValues(req), 50)
       /\ req.op = "quartiles" =>
            /\ IsNumber(resp.body.quartile_1)
            /\ IsNumber(resp.body.quartile_3)
            /\ Hundredths(resp.body.quartile_1) = Midpoint(MatchingValues(req), 25)
            /\ Hundredths(resp.body.quartile_3) = Midpoint(MatchingValues(req), 75)

\* C9 where every matching reading carries a value: the code agrees with the claim.
PercentileIsMidpointOfStoredValues ==
    (\A i \in 1..Len(readings) : readings[i].value.tag = "int")
        => C9_PercentileIsMidpoint

\* C10: over a non-empty set of matching readings, mean is the sum of their
\* values divided by their count, rounded to 2 decimals.  Stated as the claim;
\* a matching reading stored without a value (C3) has nothing to add or count.
C10_MeanIsRoundedAverage ==
    (req.op = "mean" /\ req.args.type # None /\ Matching(req) # <<>>)
    => /\ resp.status = 200
       /\ IsNumber(resp.body.value)
       /\ LET n == Len(Matching(req))
              sum == SumOf(NonNull(ValuesOf(Matching(req))))
              diff == Hundredths(resp.body.value) * n - 100 * sum
          IN  2 * diff <= n /\ 2 * diff >= 0 - n

\* C10 where every matching reading carries a value: the code agrees with the claim.
MeanIsRoundedAverageOfStoredValues ==
    (\A i \in 1..Len(readings) : readings[i].value.tag = "int")
        => C10_MeanIsRoundedAverage

\* the values of the matching readings, one cell per reading
MatchingCells(q) == ValuesOf(Matching(q))

\* C11: over a non-empty set of matching readings, max is the largest and min
\* the smallest value among exactly those readings.  Stated as the claim; when
\* no matching reading carries a value (C3) there is no value to return.
C11_MinMaxOverMatching ==
    (req.op \in {"max", "min"} /\ req.args.type # None /\ Matching(req) # <<>>)
    => /\ resp.status = 200
       /\ resp.body.value.tag = "int"
       /\ \E i \in 1..Len(Matching(req)) : Matching(req)[i].value = resp.body.value
       /\ \A i \in 1..Len(Matching(req)) :
            /\ Matching(req)[i].value.tag = "int"
            /\ req.op = "max" => Matching(req)[i].value.n <= resp.body.value.n
            /\ req.op = "min" => Matching(req)[i].value.n >= resp.body.value.n

\* C11 where every stored reading carries a value: the code agrees with the claim.
MinMaxOverStoredValues ==
    (\A i \in 1..Len(readings) : readings[i].value.tag = "int")
        => C11_MinMaxOverMatching

\* C12: over a non-empty set of matching readings, mode is a value that occurs
\* among them at least as often as every other matching value.  Stated as the
\* claim; matching readings stored without a value (C3) form a group of their own.
C12_ModeIsMostFrequent ==
    (req.op = "mode" /\ req.args.type # None /\ Matching(req) # <<>>)
    => /\ resp.status = 200
       /\ resp.body.value.tag = "int"
       /\ CountIn(MatchingCells(req), resp.body.value) >= 1
       /\ \A c \in Range(MatchingCells(req)) :
            CountIn(MatchingCells(req), c) <= CountIn(MatchingCells(req), resp.body.value)

\* C12 where every stored reading carries a value: the code agrees with the claim.
ModeIsMostFrequentOfStoredValues ==
    (\A i \in 1..Len(readings) : readings[i].value.tag = "int")
        => C12_ModeIsMostFrequent

\* the stored readings of one (device, type) pair
ReadingsOf(pair) ==
    LET Test(r) == r.device_uuid = pair[1] /\ r.type = pair[2]
    IN  SelectSeq(readings, Test)

\* C13: summary returns exactly one row for every (device, type) pair that has
\* a stored reading and no other row, and each row's count is the number of
\* stored readings of its pair.  Stated as the claim; a reading stored without
\* a value (C3) makes the percentile columns raise and the summary fail.
C13_SummaryRowPerPair ==
    req.op = "summary"
    => /\ resp.status = 200
       /\ resp.body.kind = "summary"
       /\ LET rows == resp.body.rows
              PairOf(row) == <<row.device_uuid, row.device_type>>
          IN  /\ \A i \in 1..Len(readings) :
                    \E k \in 1..Len(rows) :
                        PairOf(rows[k]) = <<readings[i].device_uuid, readings[i].type>>
              /\ \A k, l \in 1..Len(rows) : PairOf(rows[k]) = PairOf(rows[l]) => k = l
              /\ \A k \in 1..Len(rows) :
                    /\ ReadingsOf(PairOf(rows[k])) # <<>>
                    /\ rows[k].number_of_readings = Len(ReadingsOf(PairOf(rows[k])))
              /\ SumOf([k \in 1..Len(rows) |-> PyInt(rows[k].number_of_readings)])
                    = Len(readings)

\* C13 where every stored reading carries a value: the code agrees with the claim.
SummaryRowPerPairOfStoredValues ==
    (\A i \in 1..Len(readings) : readings[i].value.tag = "int")
        => C13_SummaryRowPerPair

\* a summary of two groups of different devices
SummaryOfTwoPairs ==
    /\ req.op = "summary"
    /\ resp.status = 200
    /\ Len(resp.body.rows) = 2
    /\ resp.body.rows[1].device_uuid # resp.body.rows[2].device_uuid

\* C14: the store is append-only.  Every step keeps the stored readings as a
\* prefix of the store; every step other than a record answered 201 (a listing,
\* a statistic, a summary, a rejected record) leaves the store as it was; and a
\* listing is the listing of the store as it was before the step, so that two
\* listings with the same filter over an unchanged store are equal.
C14_AppendOnly ==
    [][/\ Len(readings') >= Len(readings)
       /\ SubSeq(readings', 1, Len(readings)) = readings
       /\ (req'.op # "POST" \/ resp'.status # 201) => readings' = readings
       /\ req'.op = "GET" =>
            resp' = request_device_readings_get(req'.device_uuid, req'.args, readings)]_vars

C14_Witness ==
    /\ req.op = "POST"
    /\ resp.status = 400
    /\ req.data.value.tag = "missing"
    /\ req.data.date_created.tag = "int"
    /\ Len(readings) = 2
    /\ readings[1] # readings[2]

\* the matching values that share the maximum occurrence count
TiedValues(q) ==
    {c \in Range(MatchingCells(q)) :
        \A e \in Range(MatchingCells(q)) :
            CountIn(MatchingCells(q), e) <= CountIn(MatchingCells(q), c)}

\* the tied value of the lowest row: the one the scan in rowid order meets first
FirstTiedInScan(q) ==
    LET cells == MatchingCells(q)
        first == CHOOSE i \in 1..Len(cells) :
                    /\ cells[i] \in TiedValues(q)
                    /\ \A j \in 1..Len(cells) : cells[j] \in TiedValues(q) => i <= j
    IN  cells[first]

ModeTieIsOneOfTied ==
    (req.op = "mode" /\ req.args.type # None /\ Cardinality(TiedValues(req)) >= 2)
    => /\ resp.status = 200
       /\ resp.body.value \in TiedValues(req)

\* C16: a request opens at most one connection, and the teardown closes it
\* whatever the response was (200, 201, 400 or 500); between requests no
\* connection is open and the request context holds none.
C16_ConnectionPerRequest ==
    [][/\ connections <= 1
       /\ connections' <= 1
       /\ (req = Idle /\ req' # Idle) => (connections = 0 /\ connections' = 1)
       /\ (req # Idle /\ resp.status \in {200, 201, 400, 500})
            => (req' = Idle /\ connections' = 0 /\ g_database' = None)]_vars

C16_Witness ==
    /\ req = Idle
    /\ connections = 0
    /\ g_database = None
    /\ Len(readings) = 2
    /\ readings[1].value = None
    /\ clock = 1

\* a request answered 500 that holds its connection until the teardown
StorageFailureHoldsConnection ==
    /\ req.op \in {"median", "quartiles", "summary"}
    /\ resp.status = 500
    /\ connections = 1
    /\ g_database = Connection

\* C17: on an empty filtered set every statistic returns the same null value:
\* max, min, mean, median and mode carry null as their value, and quartiles
\* carries null in both fields.  Stated as the claim; the mode handler tests
\* "row is None" on a grouped query, which does return no row, and answers the
\* text "null".
C17_EmptyIsSameNull ==
    (req.op \in Metrics /\ req.args.type # None /\ Matching(req) = <<>>)
    => /\ resp.status = 200
       /\ req.op # "quartiles" => (resp.body.kind = "value" /\ resp.body.value = None)
       /\ req.op = "quartiles" =>
            /\ resp.body.kind = "quartiles"
            /\ resp.body.quartile_1 = None
            /\ resp.body.quartile_3 = None

\* C17 for the statistics other than mode: the code agrees with the claim.
EmptyIsSameNullButMode ==
    req.op # "mode" => C17_EmptyIsSameNull

=============================================================================
